---- MODULE Spec2Model ----
(***************************************************************************)
(* Student Performance Classification (src/app.py): a Streamlit script.    *)
(* The whole script is executed top to bottom once per render cycle: at    *)
(* session start and again after every user interaction (navigation,       *)
(* change of an input control, click on the button, manual rerun).         *)
(*                                                                         *)
(* Numeric widget values are integers in the unit of the widget's finest   *)
(* grid: tenths for sleep_hours, stress_level, screen_time,                *)
(* exam_anxiety_score and screen_time_penalty, hundredths for              *)
(* study_efficiency, units for exercise_frequency and motivation_level.    *)
(* Selection widgets (radio, selectbox) hold the 1-based index of the      *)
(* chosen option, as the framework stores it.                              *)
(***************************************************************************)
EXTENDS Integers, Sequences, FiniteSets, TLC

VARIABLES
    modelFile,        \* exam_score_calss_model.pkl on disk: 0 = missing/unreadable, n > 0 = artifact n
    imageFile,        \* dom-fou-YRMWVcdyhmI-unsplash.jpg on disk: TRUE = readable
    widget_state,     \* the session's stored widget values: widget key -> value
    trigger,          \* what started the last render cycle
    cycles,           \* render cycles of the session so far
    loads,            \* joblib.load calls since the process started
    startModel,       \* artifact that was on disk when the process started
    model,            \* result of joblib.load in the last cycle (0: it raised)
    page,             \* value of the script variable page in the last cycle
    views,            \* branches of the page dispatch entered in the last cycle
    rendered,         \* elements put on screen by the last cycle, in order
    widgets_this_run, \* keys of the widgets the last cycle called
    input_data,       \* records passed to model.predict in the last cycle, in order
    prediction,       \* class integers returned by model.predict in the last cycle
    prediction_label, \* labels rendered by st.success in the last cycle
    df_features,      \* rows rendered by st.dataframe in the last cycle
    error,            \* uncaught exception that ended the last cycle, or "none"
    last_label        \* labels that were on screen when the last cycle started

vars == <<modelFile, imageFile, widget_state, trigger, cycles, loads, startModel,
          model, page, views, rendered, widgets_this_run, input_data, prediction,
          prediction_label, df_features, error, last_label>>

(***************************************************************************)
(* Bounds of the exploration                                               *)
(***************************************************************************)
MaxCycles == 4     \* render cycles explored per session
Overshoot == 1     \* how many steps beyond a control's limits a gesture may aim
MaxClass == 3      \* the artifact may return any class integer in -1..MaxClass
MaxArtifact == 2   \* distinct artifacts that may be written to the model file

(***************************************************************************)
(* Literals of the script                                                  *)
(***************************************************************************)
NavOptions == <<"Project Overview", "Feature Explanation", "Prediction">>

EnvOptions == <<"Quiet Room", "Library", "Co-Learning Group", "Dorm", "Cafe">>

TutoringOptions == <<"Yes", "No">>

Sliders ==
    [sleep_hours        |-> [min |-> 40, max |-> 120, value |-> 70, step |-> 1],
     exercise_frequency |-> [min |-> 0,  max |-> 7,   value |-> 3,  step |-> 1],
     stress_level       |-> [min |-> 10, max |-> 100, value |-> 50, step |-> 1],
     screen_time        |-> [min |-> 3,  max |-> 210, value |-> 50, step |-> 1],
     motivation_level   |-> [min |-> 1,  max |-> 10,  value |-> 6,  step |-> 1],
     exam_anxiety_score |-> [min |-> 50, max |-> 100, value |-> 70, step |-> 5]]

NumberInputs ==
    [study_efficiency    |-> [min |-> 0, max |-> 575, value |-> 200, step |-> 5],
     screen_time_penalty |-> [min |-> 0, max |-> 900, value |-> 100, step |-> 10]]

Selectboxes ==
    [study_environment  |-> EnvOptions,
     access_to_tutoring |-> TutoringOptions]

\* Widget calls of the Prediction page, in call order (col1, then col2).
PredictionWidgets ==
    <<"sleep_hours", "exercise_frequency", "stress_level", "screen_time",
      "motivation_level", "exam_anxiety_score", "study_efficiency",
      "screen_time_penalty", "study_environment", "access_to_tutoring">>

feature_info ==
    << <<"sleep_hours", "Average number of hours the student sleeps per day. Adequate sleep improves focus, memory, and academic performance.">>,
       <<"exercise_frequency", "Number of times the student exercises per week. Regular exercise is linked to better mental health and concentration.">>,
       <<"stress_level", "Measures the student's stress level on a scale from 1 to 10. Higher stress often negatively impacts academic outcomes.">>,
       <<"screen_time", "Total daily screen time in hours. Excessive screen usage may reduce study time and sleep quality.">>,
       <<"study_environment", "The environment where the student usually studies (e.g., quiet room, library). A better environment enhances productivity.">>,
       <<"access_to_tutoring", "Indicates whether the student has access to additional tutoring or academic support.">>,
       <<"motivation_level", "Represents how motivated the student is to study, rated from 1 to 10. Higher motivation usually leads to better performance.">>,
       <<"exam_anxiety_score", "Measures anxiety level before exams. High anxiety can reduce exam performance despite good preparation.">>,
       <<"study_efficiency", "Represents how effectively the student studies within a given time. Higher values indicate better focus and learning quality.">>,
       <<"screen_time_penalty", "Quantifies the negative impact of excessive screen time on academic performance.">> >>

\* The labels carry a leading pictograph in the script; it is left out here.
class_mapping_swapped == (0 :> "Average") @@ (1 :> "At Risk") @@ (2 :> "High Performer")

class_mapping == (0 :> "At Risk") @@ (1 :> "Average") @@ (2 :> "High Performer")

(***************************************************************************)
(* Widgets: stored state, defaults, and the values a user gesture yields   *)
(***************************************************************************)
Range(s) == {s[i] : i \in 1..Len(s)}

NoWidgets == [k \in {} |-> 0]

\* value= of a slider or number_input; index 0 of a radio or selectbox.
Default(key) ==
    IF key \in DOMAIN Sliders THEN Sliders[key].value
    ELSE IF key \in DOMAIN NumberInputs THEN NumberInputs[key].value
    ELSE 1

\* A widget call returns the session's stored value, or the default when
\* the session stores none for it.
Widget(ws, key) == IF key \in DOMAIN ws THEN ws[key] ELSE Default(key)

Put(ws, key, v) == [k \in DOMAIN ws \cup {key} |-> IF k = key THEN v ELSE ws[k]]

ClampBelowOnly(c, v) == IF v < c.min THEN c.min ELSE v

\* min_value / max_value of a control limit what it can be set to.
Clamp(c, v) == IF v < c.min THEN c.min ELSE IF v > c.max THEN c.max ELSE v

\* A slider rests only on min_value + k * step (nearest position).
Snap(c, raw) == c.min + (((raw - c.min) * 2 + c.step) \div (2 * c.step)) * c.step

SliderValue(c, raw) == Clamp(c, Snap(c, raw))

\* A number_input accepts any typed number within its limits; step only
\* drives its +/- buttons.
NumberInputValue(c, raw) == Clamp(c, raw)

\* Where a gesture may aim: the limits, up to Overshoot steps beyond each,
\* and a position off the step grid near the default.
RawPositions(c) ==
    {c.min, c.max, c.value + 3}
    \cup {c.min - k * c.step : k \in 1..Overshoot}
    \cup {c.max + k * c.step : k \in 1..Overshoot}

\* End of a script run: a run that completes keeps the state of exactly the
\* widgets it called; a run ended by an exception drops nothing.
EndOfRun(ws, called, err) ==
    LET keys == IF err = "none" THEN called ELSE DOMAIN ws \cup called
    IN  [k \in keys |-> Widget(ws, k)]

(***************************************************************************)
(* The script                                                              *)
(***************************************************************************)
\* joblib.load returns the artifact read from the file; 0 stands for the
\* exception it raises when the file is missing or unreadable.
joblib_load(file) == file

LoadNeverRaises(m) == FALSE

LoadRaises(m) == m = 0

\* dict.get(k, default)
DictGet(d, k, default) == IF k \in DOMAIN d THEN d[k] ELSE default

ButtonAlways(clicked) == TRUE

ButtonNever(clicked) == FALSE

\* st.button returns True only in the run its click started.
Button(clicked) == clicked

DispatchMisspelt(p) ==
    IF p = "Project Overview" THEN {"Project Overview"}
    ELSE IF p = "Feature Explaination" THEN {"Feature Explanation"}
    ELSE IF p = "Prediction" THEN {"Prediction"}
    ELSE {}

\* if / elif / elif on page: the branches entered.
Dispatch(p) ==
    IF p = "Project Overview" THEN {"Project Overview"}
    ELSE IF p = "Feature Explanation" THEN {"Feature Explanation"}
    ELSE IF p = "Prediction" THEN {"Prediction"}
    ELSE {}

\* A run that an exception ends before the sidebar.
Aborted(m, why) ==
    [model |-> m, page |-> "undefined", views |-> {}, rendered |-> <<>>,
     called |-> {}, input_data |-> <<>>, prediction |-> <<>>,
     prediction_label |-> <<>>, df_features |-> <<>>, error |-> why]

OverviewPage(base, img) ==
    IF img
    THEN [base EXCEPT !.rendered = @ \o
             <<"title", "image", "markdown Dataset Overview",
               "metric Number of Rows = ~ 82,000",
               "metric Number of Features = 31", "markdown text">>]
    ELSE [base EXCEPT !.rendered = @ \o <<"title">>,
                      !.error = "Image.open"]

GlossaryRowsWithoutLast(info) == [i \in 1..(Len(info) - 1) |-> info[i][1]]

\* pd.DataFrame(feature_info.items(), ...): one row per item, in dict order;
\* the row is represented by its Feature Name cell.
GlossaryRows(info) == [i \in 1..Len(info) |-> info[i][1]]

GlossaryPage(base) ==
    [base EXCEPT !.rendered = @ \o <<"title", "markdown", "dataframe">>,
                 !.df_features = GlossaryRows(feature_info)]

\* The dict the one-row DataFrame is built from.
InputRecord(ws) ==
    [sleep_hours         |-> Widget(ws, "sleep_hours"),
     exercise_frequency  |-> Widget(ws, "exercise_frequency"),
     stress_level        |-> Widget(ws, "stress_level"),
     screen_time         |-> Widget(ws, "screen_time"),
     study_environment   |-> EnvOptions[Widget(ws, "study_environment")],
     access_to_tutoring  |-> TutoringOptions[Widget(ws, "access_to_tutoring")],
     motivation_level    |-> Widget(ws, "motivation_level"),
     exam_anxiety_score  |-> Widget(ws, "exam_anxiety_score"),
     study_efficiency    |-> Widget(ws, "study_efficiency"),
     screen_time_penalty |-> Widget(ws, "screen_time_penalty")]

\* cls is the class integer the artifact returns for the record.
PredictionPage(base, ws, clicked, cls) ==
    LET shown == [base EXCEPT
                    !.rendered = @ \o <<"title", "markdown">> \o PredictionWidgets
                                   \o <<"button">>,
                    !.called = @ \cup Range(PredictionWidgets) \cup {"button"}]
    IN  IF Button(clicked)
        THEN [shown EXCEPT
                !.input_data = <<InputRecord(ws)>>,
                !.prediction = <<cls>>,
                !.prediction_label = <<DictGet(class_mapping, cls, "Unknown")>>,
                !.rendered = @ \o <<"success">>]
        ELSE shown

\* One execution of app.py: stored widget state ws, clicked = the run was
\* started by a click on the button, mf / img = the files on disk.
Script(ws, clicked, mf, img, cls) ==
    LET m == joblib_load(mf)
    IN  IF LoadRaises(m)
        THEN Aborted(m, "joblib.load")
        ELSE LET p == NavOptions[Widget(ws, "Navigation")]
                 v == Dispatch(p)
                 base == [model |-> m, page |-> p, views |-> v,
                          rendered |-> <<"sidebar.radio">>,
                          called |-> {"Navigation"},
                          input_data |-> <<>>, prediction |-> <<>>,
                          prediction_label |-> <<>>, df_features |-> <<>>,
                          error |-> "none"]
             IN  IF "Project Overview" \in v THEN OverviewPage(base, img)
                 ELSE IF "Feature Explanation" \in v THEN GlossaryPage(base)
                 ELSE IF "Prediction" \in v
                      THEN PredictionPage(base, ws, clicked, cls)
                 ELSE base

(***************************************************************************)
(* Render cycles                                                           *)
(***************************************************************************)
\* Session start: the first run of the script, with the files as found.
InitWith(mf, img) ==
    LET o == Script(NoWidgets, FALSE, mf, img, 0)
    IN  /\ modelFile = mf
        /\ imageFile = img
        /\ startModel = mf
        /\ widget_state = EndOfRun(NoWidgets, o.called \ {"button"}, o.error)
        /\ trigger = "start"
        /\ cycles = 1
        /\ loads = 1
        /\ model = o.model
        /\ page = o.page
        /\ views = o.views
        /\ rendered = o.rendered
        /\ widgets_this_run = o.called
        /\ input_data = o.input_data
        /\ prediction = o.prediction
        /\ prediction_label = o.prediction_label
        /\ df_features = o.df_features
        /\ error = o.error
        /\ last_label = <<>>

Init == InitWith(1, TRUE)

InitDisk == \E mf \in 0..1, img \in BOOLEAN : InitWith(mf, img)

\* A rerun of the script with stored widget state ws.
Cycle(ws, clicked, trig, cls) ==
    LET o == Script(ws, clicked, modelFile, imageFile, cls)
    IN  /\ cycles < MaxCycles
        /\ cycles' = cycles + 1
        /\ loads' = loads + 1
        /\ trigger' = trig
        /\ widget_state' = EndOfRun(ws, o.called \ {"button"}, o.error)
        /\ model' = o.model
        /\ page' = o.page
        /\ views' = o.views
        /\ rendered' = o.rendered
        /\ widgets_this_run' = o.called
        /\ input_data' = o.input_data
        /\ prediction' = o.prediction
        /\ prediction_label' = o.prediction_label
        /\ df_features' = o.df_features
        /\ error' = o.error
        /\ last_label' = prediction_label
        /\ UNCHANGED <<modelFile, imageFile, startModel>>

\* The user picks another entry of the sidebar radio.
Navigate ==
    \E i \in 1..Len(NavOptions) :
        /\ "Navigation" \in widgets_this_run
        /\ i # Widget(widget_state, "Navigation")
        /\ Cycle(Put(widget_state, "Navigation", i), FALSE, "nav", 0)

\* The user drags one of the six sliders.
SetSlider ==
    \E key \in DOMAIN Sliders :
        \E raw \in RawPositions(Sliders[key]) :
            LET v == SliderValue(Sliders[key], raw)
            IN  /\ key \in widgets_this_run
                /\ v # Widget(widget_state, key)
                /\ Cycle(Put(widget_state, key, v), FALSE, "input", 0)

\* The user types into one of the two number inputs.
SetNumberInput ==
    \E key \in DOMAIN NumberInputs :
        \E raw \in RawPositions(NumberInputs[key]) :
            LET v == NumberInputValue(NumberInputs[key], raw)
            IN  /\ key \in widgets_this_run
                /\ v # Widget(widget_state, key)
                /\ Cycle(Put(widget_state, key, v), FALSE, "input", 0)

\* The user picks another option of one of the two select boxes.
SetSelectbox ==
    \E key \in DOMAIN Selectboxes :
        \E i \in 1..Len(Selectboxes[key]) :
            /\ key \in widgets_this_run
            /\ i # Widget(widget_state, key)
            /\ Cycle(Put(widget_state, key, i), FALSE, "input", 0)

\* The user clicks the Predict Performance button.
ClickPredict ==
    \E cls \in (0 - 1)..MaxClass :
        /\ "button" \in widgets_this_run
        /\ Cycle(widget_state, TRUE, "submit", cls)

\* The user asks for a rerun (always offered by the framework).
Rerun == Cycle(widget_state, FALSE, "rerun", 0)

\* The environment replaces, removes or restores the two files.
WriteModel ==
    \E n \in 1..MaxArtifact :
        /\ n # modelFile
        /\ modelFile' = n
        /\ UNCHANGED <<imageFile, widget_state, trigger, cycles, loads, startModel,
                       model, page, views, rendered, widgets_this_run, input_data,
                       prediction, prediction_label, df_features, error, last_label>>

RemoveModel ==
    /\ modelFile # 0
    /\ modelFile' = 0
    /\ UNCHANGED <<imageFile, widget_state, trigger, cycles, loads, startModel,
                   model, page, views, rendered, widgets_this_run, input_data,
                   prediction, prediction_label, df_features, error, last_label>>

SetImage ==
    /\ imageFile' = ~imageFile
    /\ UNCHANGED <<modelFile, widget_state, trigger, cycles, loads, startModel,
                   model, page, views, rendered, widgets_this_run, input_data,
                   prediction, prediction_label, df_features, error, last_label>>

Next ==
    \/ Navigate
    \/ SetSlider
    \/ SetNumberInput
    \/ SetSelectbox
    \/ ClickPredict
    \/ Rerun

\* A session over files that stay present and unchanged.
Spec == Init /\ [][Next]_vars

NextDisk ==
    \/ Next
    \/ WriteModel
    \/ RemoveModel
    \/ SetImage

\* A session over files that may be missing at start and change at any time.
SpecDisk == InitDisk /\ [][NextDisk]_vars

(***************************************************************************)
(* Properties                                                              *)
(***************************************************************************)
Labelled(cls) ==
    IF cls = 0 THEN "At Risk"
    ELSE IF cls = 1 THEN "Average"
    ELSE IF cls = 2 THEN "High Performer"
    ELSE "Unknown"

\* The declared domain of each attribute of a Student Input Record.
InDomain(r) ==
    /\ r.sleep_hours \in 40..120
    /\ r.exercise_frequency \in 0..7
    /\ r.stress_level \in 10..100
    /\ r.screen_time \in 3..210
    /\ r.study_environment \in {"Quiet Room", "Library", "Co-Learning Group", "Dorm", "Cafe"}
    /\ r.access_to_tutoring \in {"Yes", "No"}
    /\ r.motivation_level \in 1..10
    /\ r.exam_anxiety_score \in {50 + 5 * k : k \in 0..10}
    /\ r.study_efficiency \in 0..575
    /\ r.screen_time_penalty \in 0..900

\* The record is made of the values the ten controls hold in this cycle.
IsCurrent(r) ==
    /\ Range(PredictionWidgets) \subseteq DOMAIN widget_state
    /\ r.sleep_hours = widget_state["sleep_hours"]
    /\ r.exercise_frequency = widget_state["exercise_frequency"]
    /\ r.stress_level = widget_state["stress_level"]
    /\ r.screen_time = widget_state["screen_time"]
    /\ r.study_environment = EnvOptions[widget_state["study_environment"]]
    /\ r.access_to_tutoring = TutoringOptions[widget_state["access_to_tutoring"]]
    /\ r.motivation_level = widget_state["motivation_level"]
    /\ r.exam_anxiety_score = widget_state["exam_anxiety_score"]
    /\ r.study_efficiency = widget_state["study_efficiency"]
    /\ r.screen_time_penalty = widget_state["screen_time_penalty"]

FeatureNames ==
    <<"sleep_hours", "exercise_frequency", "stress_level", "screen_time",
      "study_environment", "access_to_tutoring", "motivation_level",
      "exam_anxiety_score", "study_efficiency", "screen_time_penalty">>

\* C1: in every render cycle that invokes model.predict, each of the ten
\* attributes of the record passed to it lies within its declared domain,
\* wherever the gestures on the controls aimed.
C1_InputsInDomain == \A i \in 1..Len(input_data) : InDomain(input_data[i])

\* C1 witness: a prediction made with a slider driven to its upper limit.
C1_Witness ==
    /\ trigger = "submit"
    /\ Len(input_data) = 1
    /\ input_data[1].screen_time = 210

\* C2: the label rendered for a class integer is "At Risk" for 0, "Average"
\* for 1, "High Performer" for 2 and "Unknown" for every other integer; a
\* label is rendered for every class returned, and the four labels differ.
C2_LabelLookup ==
    /\ Len(prediction_label) = Len(prediction)
    /\ \A i \in 1..Len(prediction) : prediction_label[i] = Labelled(prediction[i])
    /\ Cardinality({DictGet(class_mapping, c, "Unknown") : c \in 0..3}) = 4

\* C2 witness: an unrecognised class integer was returned and labelled.
C2_Witness ==
    /\ Len(prediction) = 1
    /\ prediction[1] \notin {0, 1, 2}
    /\ prediction_label = <<"Unknown">>

\* C3: a cycle started by a click on the button invokes model.predict exactly
\* once, on the ten current values, and renders exactly one label; a cycle
\* started by a navigation or by an input change invokes it zero times.
C3_PredictOncePerSubmit ==
    /\ trigger = "submit" =>
          /\ Len(input_data) = 1
          /\ IsCurrent(input_data[1])
          /\ Len(prediction) = 1
          /\ Len(prediction_label) = 1
    /\ trigger \in {"nav", "input"} =>
          /\ input_data = <<>>
          /\ prediction_label = <<>>

\* C3 witness: a submit with a control moved off its default.
C3_Witness ==
    /\ trigger = "submit"
    /\ Len(input_data) = 1
    /\ input_data[1].exam_anxiety_score = 75
    /\ Len(prediction_label) = 1

\* C4 (as claimed): a navigation never alters the value any of the ten
\* input controls of the Prediction view holds (and shows when revisited).
C4_ValuesRetained ==
    [][trigger' = "nav" /\ cycles' = cycles + 1 =>
          \A k \in Range(PredictionWidgets) :
              Widget(widget_state', k) = Widget(widget_state, k)]_vars

\* C5 (as claimed): joblib.load has run exactly once since the process
\* started, and every inference uses the artifact read at start.
C5_LoadedOnce ==
    /\ loads = 1
    /\ input_data # <<>> => model = startModel

\* C6 (as claimed): a cycle of the Overview view ends without an error and
\* renders title, heading, both metrics and the text, image missing or not.
C6_OverviewDegrades ==
    "Project Overview" \in views =>
        /\ error = "none"
        /\ {"title", "markdown Dataset Overview", "metric Number of Rows = ~ 82,000",
            "metric Number of Features = 31", "markdown text"} \subseteq Range(rendered)

\* C7: the cycle started by an input change while a prediction is on screen
\* shows no label; a label is shown only in a cycle that computed it from the
\* values the controls hold in that same cycle.
C7_NoStaleResult ==
    /\ (last_label # <<>> /\ trigger = "input") => prediction_label = <<>>
    /\ prediction_label # <<>> =>
          /\ Len(input_data) = 1
          /\ IsCurrent(input_data[1])
          /\ Len(prediction) = 1
          /\ prediction_label = <<Labelled(prediction[1])>>

\* C7 witness: an input change right after a displayed prediction.
C7_Witness ==
    /\ last_label # <<>>
    /\ trigger = "input"
    /\ "Prediction" \in views
    /\ error = "none"

\* C8: every render cycle enters exactly one view, the one the navigation
\* selection names; the selection is one of the three options and is
\* "Project Overview" in the first cycle of the session.
C8_ExactlyOneView ==
    /\ page \in {"Project Overview", "Feature Explanation", "Prediction"}
    /\ views = {page}
    /\ Cardinality(views) = 1
    /\ trigger = "start" => page = "Project Overview"

\* C8 witness: the Glossary view reached by navigation.
C8_Witness ==
    /\ trigger = "nav"
    /\ views = {"Feature Explanation"}
    /\ "dataframe" \in Range(rendered)

C10_GlossaryRows ==
    /\ "Feature Explanation" \in views => df_features = FeatureNames
    /\ "Feature Explanation" \notin views => df_features = <<>>
    /\ \A i \in 1..Len(input_data) : DOMAIN input_data[i] = Range(FeatureNames)

\* C10 witness: the Glossary view entered right after a displayed prediction.
C10_Witness ==
    /\ "Feature Explanation" \in views
    /\ last_label # <<>>
    /\ Len(df_features) = 10

====
